---- MODULE Spec2Model ----
(***************************************************************************)
(* Job orchestration and reconciliation core of proposal.biz-backend.      *)
(*                                                                         *)
(* The state is the content of the database tables the core reads and      *)
(* writes (processing_jobs, markdown_content, extracted_links,              *)
(* document_content, extraction_content, org_content_sources and the       *)
(* legacy job tables), the module-level dictionary local_job_cache, and    *)
(* the state of the Hyperbrowser provider.  The operations are the         *)
(* functions of app/utils/markdown_extraction.py and app/core/database.py  *)
(* and the request handlers of app/api/v1/endpoints.                       *)
(*                                                                         *)
(* Calls between the functions follow Python's call semantics: a call      *)
(* that passes a keyword the callee does not declare raises TypeError at   *)
(* the call, before the callee runs, and the exception takes the handler   *)
(* the caller wrote for it.  A dictionary read d.get(k, default) yields    *)
(* the default when the dictionary built by the callee has no key k.       *)
(***************************************************************************)
EXTENDS Integers, Sequences, FiniteSets, TLC

\* ----------------------------------------------------------------------
\* Bounds of the model
\* ----------------------------------------------------------------------
MaxJobs == 2
MaxOrgs == 2
MaxUrls == 2
MaxLinkRows == 1
MaxFiles == 2
MaxResultRows == 2
MaxSources == 2
MaxProcs == 2
MaxAttempts == 5

JobIds == 1 .. MaxJobs
Orgs == 1 .. MaxOrgs
Urls == 1 .. MaxUrls
Files == 1 .. MaxFiles
Sources == 1 .. MaxSources
Procs == 1 .. MaxProcs

\* Python's None where an identifier (organization, batch id) is expected;
\* both are falsy in "if org_id:" and "if not hyperbrowser_batch_id:".
NoOrg == 0
NoBatch == 0
\* Python's None where a row (dict) is expected.
NoneRow == [none |-> TRUE]
\* Python's None where a string is expected.
NoneStr == "None"
\* The empty dict {}.
EmptyDict == <<>>

\* d.get(k, default)
DictGet(d, k, default) == IF k \in DOMAIN d THEN d[k] ELSE default

\* d[k] = v
DictSet(d, k, v) == [x \in DOMAIN d \cup {k} |-> IF x = k THEN v ELSE d[x]]

\* insert of one more row under the key k of a table that counts its rows
InsertRow(t, k) == DictSet(t, k, DictGet(t, k, 0) + 1)

\* A call binds when every keyword it passes is a declared parameter and
\* every parameter without a default is passed.
Binds(passed, declared, required) ==
    passed \subseteq declared /\ required \subseteq passed

VARIABLES
    processing_jobs,          \* table processing_jobs: job_id -> row
    markdown_content,         \* table markdown_content: <<job_id, url>> -> row
    extracted_links,          \* table extracted_links: <<job_id, url>> -> number of rows
    markdownextractionjobs,   \* legacy table MARKDOWN_JOBS_TABLE: job_id -> row
    document_content,         \* table document_content: <<job_id, filename>> -> row
    documentconversionjobs,   \* legacy table DOCUMENT_JOBS_TABLE: job_id -> row
    extraction_content,       \* table extraction_content: job_id -> number of rows
    org_content_sources,      \* table org_content_sources: job_id -> number of rows
    org_content_library,      \* table org_content_library: <<org_id, source_id>> -> number of rows
    documents,                \* table documents, rows of uploaded files: <<job_id, filename>> -> row
    file_content_sources,     \* table org_content_sources, rows of source_type "file":
                              \* <<job_id, filename>> the row was created for -> row
    local_job_cache,          \* dictionary local_job_cache: job_id -> dict
    hyperbrowser,             \* provider: batch id -> [status, data]
    submission,               \* job_id -> state of the job's detached background task
    inflight,                 \* caller -> the call it is in the middle of
    http,                     \* the request the JWT middleware saw last and its answer
    docling,                  \* DoclingClient.wait_for_completion: the loop's position
    last                      \* the operation that ran last, what it returned, and
                              \* whether it repeated the operation before it

\* What the functions of app/core/database.py read and write.
stores == <<processing_jobs, markdown_content, extracted_links,
            markdownextractionjobs, document_content, documentconversionjobs,
            extraction_content, org_content_sources, org_content_library,
            documents, file_content_sources, local_job_cache>>

vars == <<stores, hyperbrowser, submission, inflight, http, docling, last>>

\* The stores as one value, so that a function of the source is an
\* operator from a database to a database.
DB == [processing_jobs |-> processing_jobs,
       markdown_content |-> markdown_content,
       extracted_links |-> extracted_links,
       markdownextractionjobs |-> markdownextractionjobs,
       document_content |-> document_content,
       documentconversionjobs |-> documentconversionjobs,
       extraction_content |-> extraction_content,
       org_content_sources |-> org_content_sources,
       org_content_library |-> org_content_library,
       documents |-> documents,
       file_content_sources |-> file_content_sources,
       local_job_cache |-> local_job_cache]

\* ----------------------------------------------------------------------
\* app/core/database.py: unified job table
\* ----------------------------------------------------------------------

\* _convert_org_id: an integer is returned as it is.
convert_org_id(org_id) == org_id

\* create_processing_job: the inserted row; the key source_url is added
\* "if source_url:".
create_processing_job(db, job_id, job_type, org_id, source_url, total_items, metadata) ==
    [db EXCEPT !.processing_jobs = @ @@ (job_id :>
        ([job_id |-> job_id,
          job_type |-> job_type,
          org_id |-> convert_org_id(org_id),
          status |-> "pending",
          total_items |-> total_items,
          completed_items |-> 0,
          error_message |-> NoneStr,
          metadata |-> metadata]
         @@ (IF source_url # NoneStr THEN [source_url |-> source_url] ELSE <<>>)))]

\* get_processing_job: select by job_id, and by org_id only "if org_id:".
get_processing_job(db, job_id, org_id) ==
    IF /\ job_id \in DOMAIN db.processing_jobs
       /\ (org_id = NoOrg \/ db.processing_jobs[job_id].org_id = convert_org_id(org_id))
    THEN db.processing_jobs[job_id]
    ELSE NoneRow

\* update_processing_job: a patch of the fields that are not None, applied
\* to the row selected by job_id (and org_id "if org_id:").
update_processing_job(db, job_id, patch, org_id) ==
    IF get_processing_job(db, job_id, org_id) = NoneRow
    THEN db
    ELSE [db EXCEPT !.processing_jobs[job_id] =
            [f \in DOMAIN @ |-> IF f \in DOMAIN patch THEN patch[f] ELSE @[f]]]

\* ----------------------------------------------------------------------
\* app/core/database.py: markdown extraction
\* ----------------------------------------------------------------------

\* create_markdown_extraction_job: the job row and one pending
\* markdown_content row per URL.
create_markdown_extraction_job(db, job_id, urls, org_id) ==
    LET d1 == create_processing_job(db, job_id, "markdown_extraction", org_id, NoneStr,
                  Cardinality(urls), ("total_urls" :> Cardinality(urls)))
    IN [d1 EXCEPT !.markdown_content = @ @@
          [k \in {job_id} \X urls |->
              [status |-> "pending", org_id |-> convert_org_id(org_id),
               markdown_text |-> NoneStr]]]

\* get_markdown_extraction_job: the job in "legacy format".  The dict it
\* builds has the keys job_id, status, total_urls, completed_urls, org_id
\* (and timestamps); it has no key "metadata" and no key "error_message".
get_markdown_extraction_job(db, job_id, org_id) ==
    LET job_record == get_processing_job(db, job_id, org_id) IN
    IF job_record # NoneRow /\ job_record.job_type = "markdown_extraction"
    THEN [job_id |-> job_record.job_id,
          status |-> job_record.status,
          total_urls |-> DictGet(job_record.metadata, "total_urls", job_record.total_items),
          completed_urls |-> job_record.completed_items,
          org_id |-> job_record.org_id]
    ELSE NoneRow

\* The parameters update_markdown_extraction_status would take if it
\* accepted the error_message its callers pass.
update_markdown_extraction_status_params_with_error ==
    {"job_id", "status", "org_id", "error_message"}

\* Parameters of update_markdown_extraction_status(job_id, status, org_id).
update_markdown_extraction_status_params == {"job_id", "status", "org_id"}

\* update_markdown_extraction_status: sets the status column only.
update_markdown_extraction_status(db, job_id, status, org_id) ==
    update_processing_job(db, job_id, ("status" :> status), org_id)

\* A call of update_markdown_extraction_status passing job_id, status and
\* org_id by position and the keywords kw.
call_update_markdown_extraction_status(db, job_id, status, org_id, kw) ==
    IF Binds({"job_id", "status", "org_id"} \cup kw,
             update_markdown_extraction_status_params, {"job_id", "status"})
    THEN [raised |-> FALSE, db |-> update_markdown_extraction_status(db, job_id, status, org_id)]
    ELSE [raised |-> TRUE, db |-> db]

\* Parameters of update_url_markdown_content, and those without a default.
update_url_markdown_content_params ==
    {"job_id", "url", "markdown_text", "status", "metadata", "links",
     "html", "screenshot", "org_id"}

update_url_markdown_content_required == {"job_id", "url", "markdown_text"}

\* The table of the unified job rows, PROCESSING_JOBS_TABLE.
url_count_table_unified == "processing_jobs"

\* The table the completed count of a markdown job is written to:
\* MARKDOWN_JOBS_TABLE, the legacy table "markdownextractionjobs".
url_count_table == "markdownextractionjobs"

\* update(job_update).eq("job_id", job_id)[.eq("org_id", org_id)] on the
\* job table named tbl.  The rows of processing_jobs call the count
\* completed_items; the rows of the legacy table call it completed_urls.
update_url_count(db, tbl, job_id, org_id, completed_count, total_count) ==
    LET rows == IF tbl = "processing_jobs" THEN db.processing_jobs
                ELSE db.markdownextractionjobs
        col == IF tbl = "processing_jobs" THEN "completed_items" ELSE "completed_urls"
        hit == job_id \in DOMAIN rows /\ (org_id = NoOrg \/ rows[job_id].org_id = org_id)
        upd == [f \in DOMAIN rows[job_id] |->
                  IF f = col THEN completed_count
                  ELSE IF f = "status" /\ completed_count >= total_count THEN "completed"
                  ELSE rows[job_id][f]]
    IN IF ~hit THEN db
       ELSE IF tbl = "processing_jobs"
            THEN [db EXCEPT !.processing_jobs[job_id] = upd]
            ELSE [db EXCEPT !.markdownextractionjobs[job_id] = upd]

\* update_url_markdown_content, its first two statements: overwrite the
\* row of (job_id, url) and insert the links.
url_rows_written(db, job_id, url, markdown_text, status, links, org_id) ==
    LET k == <<job_id, url>>
        hit == k \in DOMAIN db.markdown_content
               /\ (org_id = NoOrg \/ db.markdown_content[k].org_id = org_id)
        d1 == IF hit
              THEN [db EXCEPT !.markdown_content[k] =
                       [@ EXCEPT !.markdown_text = markdown_text, !.status = status]]
              ELSE db
    IN IF links > 0
       THEN [d1 EXCEPT !.extracted_links =
                IF k \in DOMAIN @ THEN [@ EXCEPT ![k] = @ + links]
                ELSE @ @@ (k :> links)]
       ELSE d1

\* update_url_markdown_content, its last statement: one more than the
\* completed count of the job as it was read goes to MARKDOWN_JOBS_TABLE.
url_count_written(db, job, job_id, org_id) ==
    IF job = NoneRow THEN db
    ELSE update_url_count(db, url_count_table, job_id, org_id,
                          job.completed_urls + 1, job.total_urls)

\* update_url_markdown_content: overwrite the row of (job_id, url), insert
\* the links, then add one to the completed count read through
\* get_markdown_extraction_job and write it to MARKDOWN_JOBS_TABLE.
update_url_markdown_content(db, job_id, url, markdown_text, status, links, org_id) ==
    url_count_written(
        url_rows_written(db, job_id, url, markdown_text, status, links, org_id),
        get_markdown_extraction_job(
            url_rows_written(db, job_id, url, markdown_text, status, links, org_id),
            job_id, org_id),
        job_id, org_id)

\* A call of update_url_markdown_content passing the keywords kw.
call_update_url_markdown_content(db, kw, job_id, url, markdown_text, status, links, org_id) ==
    IF Binds(kw, update_url_markdown_content_params, update_url_markdown_content_required)
    THEN [raised |-> FALSE,
          db |-> update_url_markdown_content(db, job_id, url, markdown_text, status, links, org_id)]
    ELSE [raised |-> TRUE, db |-> db]

\* update_processing_job_status(job_id, status, org_id=, metadata=,
\* completed_items=, error_message=): imported from app.core.database by
\* markdown_extraction.py and doc_to_markdown.py; the partial-field patch of
\* the Job Store contract.
update_processing_job_status(db, job_id, patch, org_id) ==
    update_processing_job(db, job_id, patch, org_id)

\* ----------------------------------------------------------------------
\* app/core/database.py: website extraction
\* ----------------------------------------------------------------------

\* create_extraction_job.  db_ok tells whether the insert of
\* create_processing_job succeeds; when it raises, create_processing_job
\* returns None and the job lives in local_job_cache alone.
create_extraction_job(db, job_id, url, org_id, db_ok) ==
    LET d1 == IF db_ok
              THEN create_processing_job(db, job_id, "website_extraction", org_id, url, 1,
                                         [url |-> url])
              ELSE db
    IN [d1 EXCEPT !.local_job_cache = DictSet(@, job_id,
           [job_id |-> job_id, url |-> url, status |-> "pending", org_id |-> org_id])]

\* The job types of the processing_jobs table.
every_job_type ==
    {"website_extraction", "markdown_extraction", "document_conversion", "content_library"}

\* The job types get_extraction_job takes for an extraction job.
extraction_job_types == {"website_extraction"}

\* get_extraction_job: the job in "legacy format", written to
\* local_job_cache on the way; else the cached job, checked against org_id
\* "if org_id".  The result is the job and the database with the cache.
get_extraction_job(db, job_id, org_id) ==
    LET job_record == get_processing_job(db, job_id, org_id)
        legacy_format == [job_id |-> job_record.job_id,
                          url |-> DictGet(job_record, "source_url", ""),
                          status |-> job_record.status,
                          org_id |-> job_record.org_id]
    IN IF job_record # NoneRow /\ job_record.job_type \in extraction_job_types
       THEN [job |-> legacy_format,
             db |-> [db EXCEPT !.local_job_cache = DictSet(@, job_id, legacy_format)]]
       ELSE IF job_id \in DOMAIN db.local_job_cache
            THEN [job |-> IF org_id # NoOrg /\ db.local_job_cache[job_id].org_id # org_id
                          THEN NoneRow
                          ELSE db.local_job_cache[job_id],
                  db |-> db]
       ELSE [job |-> NoneRow, db |-> db]

\* store_extraction_result: one more row of extraction_content.
store_extraction_result(db, job_id) ==
    [db EXCEPT !.extraction_content = InsertRow(@, job_id)]

\* store_extraction_content: one more row of org_content_sources, and then
\* "await" of what the synchronous client's execute() returned, a
\* TypeError: the row is inserted and the call raises.
store_extraction_content(db, job_id) ==
    [raised |-> TRUE, db |-> [db EXCEPT !.org_content_sources = InsertRow(@, job_id)]]

\* update_extraction_job_status: the status given, completed_items 1 or 0,
\* the error of a failed job that comes with data; the result rows of a
\* completed job that comes with data (an exception there is logged); the
\* status of the cached job.  extraction_data is "None" or "data".
update_extraction_job_status(db, job_id, status, extraction_data, org_id) ==
    LET completed_items == IF status = "completed" THEN 1 ELSE 0
        patch == ("status" :> status) @@ ("completed_items" :> completed_items)
                 @@ (IF status = "failed" /\ extraction_data # NoneStr
                     THEN ("error_message" :> "Extraction failed") ELSE <<>>)
        d1 == update_processing_job(db, job_id, patch, org_id)
        d2 == IF status = "completed" /\ extraction_data # NoneStr /\ org_id # NoOrg
              THEN store_extraction_content(store_extraction_result(d1, job_id), job_id).db
              ELSE d1
    IN IF job_id \in DOMAIN d2.local_job_cache
       THEN [d2 EXCEPT !.local_job_cache[job_id].status = status]
       ELSE d2

\* ----------------------------------------------------------------------
\* app/core/database.py: document conversion
\* ----------------------------------------------------------------------

\* create_document_conversion_job: the job row, with total_items 0.
create_document_conversion_job(db, job_id, org_id) ==
    create_processing_job(db, job_id, "document_conversion", org_id, NoneStr, 0,
                          [total_files |-> 0, completed_files |-> 0])

\* get_document_conversion_job: select from DOCUMENT_JOBS_TABLE, the legacy
\* table "documentconversionjobs".
get_document_conversion_job(db, job_id, org_id) ==
    IF /\ job_id \in DOMAIN db.documentconversionjobs
       /\ (org_id = NoOrg \/ db.documentconversionjobs[job_id].org_id = org_id)
    THEN db.documentconversionjobs[job_id]
    ELSE NoneRow

\* update_document_conversion_status(job_id, status, org_id): sets the
\* status column of the row of DOCUMENT_JOBS_TABLE.
update_document_conversion_status(db, job_id, status, org_id) ==
    IF get_document_conversion_job(db, job_id, org_id) = NoneRow
    THEN db
    ELSE [db EXCEPT !.documentconversionjobs[job_id].status = status]

\* The number of parameters of update_document_conversion_status.
update_document_conversion_status_arity == 3

\* A call of update_document_conversion_status with positional arguments.
call_update_document_conversion_status(db, job_id, status, org_id, positional) ==
    IF positional <= update_document_conversion_status_arity
    THEN [raised |-> FALSE, db |-> update_document_conversion_status(db, job_id, status, org_id)]
    ELSE [raised |-> TRUE, db |-> db]

\* create_document_content_record: one pending document_content row.
create_document_content_record(db, job_id, filename, org_id) ==
    [db EXCEPT !.document_content = @ @@ (<<job_id, filename>> :>
        [status |-> "pending", org_id |-> org_id, markdown_text |-> NoneStr])]

\* create_document_record: a row of documents for the file, processing.
create_document_record(db, job_id, filename, org_id) ==
    [db EXCEPT !.documents = @ @@ (<<job_id, filename>> :>
        [org_id |-> org_id, status |-> "processing",
         content |-> [job_id |-> job_id, filename |-> filename, status |-> "processing"]])]

\* create_org_content_source_record: a row of org_content_sources for the
\* file, processing, carrying the job_id.
create_org_content_source_record(db, job_id, filename, org_id) ==
    [db EXCEPT !.file_content_sources = @ @@ (<<job_id, filename>> :>
        [org_id |-> org_id, job_id |-> job_id, name |-> filename,
         status |-> "processing", parsed_content |-> NoneStr,
         status_metadata |-> EmptyDict])]

\* update_document_content, the update of the documents table: the first
\* document of the organization whose content names the job and the file.
document_record_updated(db, job_id, filename, markdown_text, status, org_id) ==
    IF /\ <<job_id, filename>> \in DOMAIN db.documents
       /\ db.documents[<<job_id, filename>>].org_id = org_id
    THEN [db EXCEPT !.documents[<<job_id, filename>>] =
             [@ EXCEPT !.status = IF status = "completed" THEN "completed" ELSE "failed",
                       !.content = [job_id |-> job_id, filename |-> filename,
                                    status |-> status, markdown_text |-> markdown_text]]]
    ELSE db

\* update_document_content, the update of org_content_sources: every row
\* selected by job_id (and org_id) is given the result of this file.
content_sources_updated(db, job_id, filename, markdown_text, status, org_id) ==
    [db EXCEPT !.file_content_sources =
        [k \in DOMAIN @ |->
            IF @[k].job_id = job_id /\ (org_id = NoOrg \/ @[k].org_id = org_id)
            THEN [@[k] EXCEPT
                    !.status = IF status = "completed" THEN "completed" ELSE "failed",
                    !.parsed_content = IF status = "completed" THEN markdown_text
                                       ELSE NoneStr,
                    !.status_metadata = [filename |-> filename]]
            ELSE @[k]]]

\* update_document_content, its first statements: overwrite the row of
\* (job_id, filename), then update the document and the content sources.
document_rows_written(db, job_id, filename, markdown_text, status, org_id) ==
    content_sources_updated(
        document_record_updated(
            IF /\ <<job_id, filename>> \in DOMAIN db.document_content
               /\ (org_id = NoOrg
                   \/ db.document_content[<<job_id, filename>>].org_id = org_id)
            THEN [db EXCEPT !.document_content[<<job_id, filename>>] =
                     [@ EXCEPT !.markdown_text = markdown_text, !.status = status]]
            ELSE db,
            job_id, filename, markdown_text, status, org_id),
        job_id, filename, markdown_text, status, org_id)

\* update_document_content: overwrite the row of (job_id, filename),
\* update the document of the file and the content sources of the job, then
\* read the job from DOCUMENT_JOBS_TABLE and, if it is there, write its
\* status: "completed" with three arguments, "processing" with four, a
\* TypeError the function's own except logs.
update_document_content(db, job_id, filename, markdown_text, status, org_id) ==
    LET d1 == document_rows_written(db, job_id, filename, markdown_text, status, org_id)
        job == get_document_conversion_job(d1, job_id, org_id)
        completed_files == DictGet(job, "completed_files", 0) + 1
        total_files == DictGet(job, "total_files", 0)
    IN IF job = NoneRow THEN d1
       ELSE IF completed_files >= total_files
            THEN call_update_document_conversion_status(d1, job_id, "completed", org_id, 3).db
            ELSE call_update_document_conversion_status(d1, job_id, "processing", org_id, 4).db

\* ----------------------------------------------------------------------
\* app/core/database_content_lib.py and the content library task
\* ----------------------------------------------------------------------

\* create_content_library_job: the job row, one item per source id.
create_content_library_job(db, job_id, org_id, source_ids) ==
    [db EXCEPT !.processing_jobs = @ @@ (job_id :>
        [job_id |-> job_id,
         job_type |-> "content_library",
         org_id |-> org_id,
         status |-> "pending",
         total_items |-> Cardinality(source_ids),
         completed_items |-> 0,
         error_message |-> NoneStr,
         source_ids |-> source_ids,
         metadata |-> [content_library_processing |-> TRUE,
                       source_count |-> Cardinality(source_ids)]])]

\* get_content_library_job: select by job_id and job_type, and by org_id
\* "if org_id".
get_content_library_job(db, job_id, org_id) ==
    IF /\ job_id \in DOMAIN db.processing_jobs
       /\ db.processing_jobs[job_id].job_type = "content_library"
       /\ (org_id = NoOrg \/ db.processing_jobs[job_id].org_id = org_id)
    THEN db.processing_jobs[job_id]
    ELSE NoneRow

\* update_content_library_job_status(job_id, status, processed_count=,
\* error=, org_id=): args holds status and the optional arguments the
\* call passes; processed_count goes to completed_items, a non-empty
\* error to error_message.
update_content_library_job_status(db, job_id, args, org_id) ==
    LET update_data ==
            ("status" :> args.status)
            @@ (IF "processed_count" \in DOMAIN args
                THEN ("completed_items" :> args.processed_count) ELSE <<>>)
            @@ (IF "error" \in DOMAIN args /\ args.error # ""
                THEN ("error_message" :> args.error) ELSE <<>>)
    IN IF get_content_library_job(db, job_id, org_id) = NoneRow
       THEN db
       ELSE [db EXCEPT !.processing_jobs[job_id] =
               [f \in DOMAIN @ |-> IF f \in DOMAIN update_data THEN update_data[f] ELSE @[f]]]

\* store_business_information: one row of org_content_library under the
\* first source id; insert_ok is whether the insert returns the row.  The
\* result says whether it holds "error", stored_items, and the database.
store_business_information(db, org_id, source_ids, insert_ok) ==
    LET primary_source_id == CHOOSE x \in source_ids : \A y \in source_ids : x <= y
    IN IF source_ids = {} THEN [error |-> TRUE, stored_items |-> 0, db |-> db]
       ELSE IF insert_ok
            THEN [error |-> FALSE, stored_items |-> 1,
                  db |-> [db EXCEPT !.org_content_library =
                             InsertRow(@, <<org_id, primary_source_id>>)]]
       ELSE [error |-> TRUE, stored_items |-> 0, db |-> db]

\* get_content_sources(source_ids, org_id): imported by content_lib.py
\* from app.core.database_content_lib, which does not define it; it
\* yields the content sources of the organization among source_ids, here
\* the number found of them.
get_content_sources(source_ids, found) ==
    IF found <= Cardinality(source_ids) THEN found ELSE Cardinality(source_ids)

\* process_content_library_job after its first update: sources is the
\* number of sources found, usable the number of them with content,
\* extracted whether extract_structured_data returns, insert_ok whether
\* the library row is stored.
content_library_outcome(db, job_id, org_id, source_ids, sources, usable, extracted, insert_ok) ==
    LET failed == update_content_library_job_status(
                      db, job_id, [status |-> "failed", error |-> "error_msg"], org_id)
        storage_result == store_business_information(db, org_id, source_ids, insert_ok)
    IN IF sources = 0 THEN failed
       ELSE IF usable = 0 THEN failed
       ELSE IF ~extracted THEN failed
       ELSE IF storage_result.error
            THEN update_content_library_job_status(
                     storage_result.db, job_id,
                     [status |-> "failed", error |-> "error_msg"], org_id)
       ELSE update_content_library_job_status(
                storage_result.db, job_id,
                [status |-> "completed", processed_count |-> storage_result.stored_items],
                org_id)

\* ----------------------------------------------------------------------
\* app/utils/markdown_extraction.py
\* ----------------------------------------------------------------------

\* Keywords of the calls update_markdown_extraction_status(job, status,
\* org_id, error_message=...) of markdown_extraction.py.
status_call_with_error_kw == {"error_message"}

\* Keywords of the calls update_url_markdown_content(hyperbrowser_job_id=...,
\* url=..., markdown_text=..., status=..., metadata=..., links=..., html=...,
\* screenshot=..., org_id=...) of process_batch_results.
content_call_kw ==
    {"hyperbrowser_job_id", "url", "markdown_text", "status", "metadata",
     "links", "html", "screenshot", "org_id"}

\* The links of one provider result.
result_links(status) == IF status = "completed" THEN 1 ELSE 0

\* process_batch_results, the body of the loop for one result: c1 is the
\* write of the result and counts n when it returns; c2 is the write of a
\* failed result in the handler of c1's exception, whose own exception is
\* logged.
one_result(c1, c2, n) ==
    IF ~c1.raised
    THEN [db |-> c1.db, successful |-> n]
    ELSE [db |-> c2.db, successful |-> 0]

process_one_result(db, job_id, url, status, org_id) ==
    one_result(
        call_update_url_markdown_content(db, content_call_kw, job_id, url,
            IF status = "completed" THEN "markdown" ELSE "",
            IF status = "completed" THEN "completed" ELSE "failed",
            result_links(status), org_id),
        call_update_url_markdown_content(db, content_call_kw, job_id, url,
            "", "failed", 0, org_id),
        IF status = "completed" THEN 1 ELSE 0)

\* process_batch_results, the loop over results_data (here in URL order),
\* counting successful_results.
RECURSIVE process_results(_, _, _, _, _, _)
RECURSIVE next_result(_, _, _, _, _, _)
process_results(db, job_id, data, todo, org_id, successful_results) ==
    IF todo = {} THEN [db |-> db, successful |-> successful_results]
    ELSE next_result(
             process_one_result(db, job_id, CHOOSE u \in todo : \A v \in todo : u <= v,
                                data[CHOOSE u \in todo : \A v \in todo : u <= v], org_id),
             job_id, data, todo \ {CHOOSE u \in todo : \A v \in todo : u <= v}, org_id,
             successful_results)

next_result(r1, job_id, data, todo, org_id, successful_results) ==
    process_results(r1.db, job_id, data, todo, org_id, successful_results + r1.successful)

\* The final status process_batch_results computes from the counts.
final_status(successful_results, total_results) ==
    IF successful_results > 0 THEN "completed" ELSE "failed"

\* process_batch_results, the write of the final status after the loop.
final_write(r, job_id, total_results, org_id) ==
    call_update_markdown_extraction_status(r.db, job_id,
        final_status(r.successful, total_results), org_id, status_call_with_error_kw)

\* process_batch_results, "except Exception": when the write c raised, the
\* status failed is written, without protection.
critical_error(c, job_id, org_id) ==
    IF c.raised
    THEN call_update_markdown_extraction_status(c.db, job_id, "failed", org_id,
                                                status_call_with_error_kw)
    ELSE c

\* process_batch_results: raised tells whether an exception leaves it.
process_batch_results(db, job_id, data, org_id) ==
    IF DOMAIN data = {}
    THEN critical_error(
             call_update_markdown_extraction_status(db, job_id, "failed", org_id,
                                                    status_call_with_error_kw),
             job_id, org_id)
    ELSE critical_error(
             final_write(process_results(db, job_id, data, DOMAIN data, org_id, 0),
                         job_id, Cardinality(DOMAIN data), org_id),
             job_id, org_id)

\* The statuses for which check_and_process_batch_job returns at once.
already_finished == {"completed", "failed"}

\* job.get("metadata", {}).get("hyperbrowser_batch_id")
batch_id_of(job) ==
    DictGet(DictGet(job, "metadata", EmptyDict), "hyperbrowser_batch_id", NoBatch)

\* check_and_process_batch_job, what a step of the inner try yields: the
\* status to return, or raised with the database as the step left it.
returned(result, c) == [raised |-> c.raised, result |-> result, db |-> c.db]

\* check_and_process_batch_job, the inner try for a job that has a batch
\* id.  hb is the provider, poll_raises and get_raises tell whether
\* client.scrape.batch.get_status and client.scrape.batch.get raise.
inner_try(db, job, job_id, org_id, hb, poll_raises, get_raises) ==
    IF poll_raises \/ batch_id_of(job) \notin DOMAIN hb
    THEN [raised |-> TRUE, result |-> "error", db |-> db]
    ELSE IF hb[batch_id_of(job)].status = "completed"
         THEN (IF get_raises THEN [raised |-> TRUE, result |-> "error", db |-> db]
               ELSE returned("completed",
                        process_batch_results(db, job_id, hb[batch_id_of(job)].data, org_id)))
    ELSE IF hb[batch_id_of(job)].status = "failed"
         THEN returned("failed",
                  call_update_markdown_extraction_status(db, job_id, "failed", org_id,
                                                         status_call_with_error_kw))
    ELSE IF hb[batch_id_of(job)].status \in {"pending", "running"}
         THEN [raised |-> FALSE, result |-> "processing", db |-> db]
    ELSE [raised |-> FALSE, result |-> "unknown", db |-> db]

\* check_and_process_batch_job, except of the outer try: the write of the
\* status failed is attempted in a try of its own.
outer_except(c) == [result |-> "error", db |-> c.db]

\* check_and_process_batch_job, a write c of the status failed inside the
\* outer try, followed by the return of "error": of a job without batch id,
\* and in the except of the inner try.  Its exception takes the outer except.
inner_except(c, job_id, org_id) ==
    IF c.raised
    THEN outer_except(call_update_markdown_extraction_status(c.db, job_id, "failed", org_id,
                                                             status_call_with_error_kw))
    ELSE [result |-> "error", db |-> c.db]

\* check_and_process_batch_job, the end of the inner try.
inner_end(t, job_id, org_id) ==
    IF t.raised
    THEN inner_except(call_update_markdown_extraction_status(t.db, job_id, "failed", org_id,
                                                             status_call_with_error_kw),
                      job_id, org_id)
    ELSE [result |-> t.result, db |-> t.db]

\* check_and_process_batch_job, after the job was read.
checked(db, job, job_id, org_id, hb, poll_raises, get_raises) ==
    IF job = NoneRow THEN [result |-> "not_found", db |-> db]
    ELSE IF job.status \in already_finished THEN [result |-> job.status, db |-> db]
    ELSE IF batch_id_of(job) = NoBatch
         THEN inner_except(call_update_markdown_extraction_status(db, job_id, "failed", org_id,
                                                                  status_call_with_error_kw),
                           job_id, org_id)
    ELSE inner_end(inner_try(db, job, job_id, org_id, hb, poll_raises, get_raises),
                   job_id, org_id)

\* check_and_process_batch_job(hyperbrowser_job_id, org_id).
check_and_process_batch_job(db, job_id, org_id, hb, poll_raises, get_raises) ==
    checked(db, get_markdown_extraction_job(db, job_id, org_id), job_id, org_id, hb,
            poll_raises, get_raises)

\* start_batch_scrape.  accepted tells whether client.scrape.batch.start
\* returns the batch job hyperbrowser_batch_id or raises.
start_batch_scrape(db, job_id, org_id, accepted, hyperbrowser_batch_id) ==
    LET c0 == call_update_markdown_extraction_status(db, job_id, "processing", org_id, {})
        job == get_markdown_extraction_job(c0.db, job_id, org_id)
        current_metadata ==
            [k \in DOMAIN DictGet(job, "metadata", EmptyDict) \cup {"hyperbrowser_batch_id"} |->
                IF k = "hyperbrowser_batch_id" THEN hyperbrowser_batch_id
                ELSE DictGet(job, "metadata", EmptyDict)[k]]
        stored == update_processing_job_status(c0.db, job_id,
                      [status |-> "processing", metadata |-> current_metadata], org_id)
        failed == call_update_markdown_extraction_status(c0.db, job_id, "failed", org_id,
                      status_call_with_error_kw)
    IN IF accepted
       THEN [result |-> "submitted", db |-> IF job = NoneRow THEN c0.db ELSE stored]
       ELSE [result |-> "None", db |-> failed.db]

\* ----------------------------------------------------------------------
\* app/api/v1/endpoints/markdown_scrapping_from_url.py
\* ----------------------------------------------------------------------

\* get_user_organizations(user_id): the list of the values of the column
\* org_id of the user's rows of organization_users.  The requesting user
\* belongs to the organization caller, or to none.
get_user_organizations(caller) == IF caller = NoOrg THEN {} ELSE {caller}

\* [org["org_id"] for org in user_orgs]: every org is an organization id,
\* not a dict, and subscripting it raises TypeError.
user_org_ids(user_orgs) ==
    [raised |-> user_orgs # {}, ids |-> {}]

\* get_markdown_content(job_id, org_id): whether the job has content rows.
get_markdown_content(db, job_id, org_id) ==
    \E k \in DOMAIN db.markdown_content :
        k[1] = job_id /\ (org_id = NoOrg \/ db.markdown_content[k].org_id = org_id)

\* get_markdown_status: the HTTP status code of the response, and the
\* database after the request.
get_markdown_status(db, job_id, caller, hb, poll_raises, get_raises) ==
    LET user_orgs == get_user_organizations(caller)
        org_ids == user_org_ids(user_orgs)
        found == {o \in org_ids.ids : get_processing_job(db, job_id, o) # NoneRow}
        org_id == CHOOSE o \in found : \A x \in found : o <= x
        job == get_processing_job(db, job_id, org_id)
        hyperbrowser_job_id ==
            DictGet(DictGet(job, "metadata", EmptyDict), "hyperbrowser_job_id", NoBatch)
        status_info == check_and_process_batch_job(db, hyperbrowser_job_id, org_id, hb,
                                                   poll_raises, get_raises)
    IN IF user_orgs = {} THEN [code |-> "400", db |-> db]
       ELSE IF org_ids.raised THEN [code |-> "500", db |-> db]
       ELSE IF found = {} THEN [code |-> "404", db |-> db]
       ELSE IF hyperbrowser_job_id = NoBatch THEN [code |-> "500", db |-> db]
       ELSE IF status_info.result = "error" THEN [code |-> "500", db |-> status_info.db]
       ELSE [code |-> "200", db |-> status_info.db]

\* get_markdown_results: as get_markdown_status, then the content rows.
get_markdown_results(db, job_id, caller, hb, poll_raises, get_raises) ==
    LET user_orgs == get_user_organizations(caller)
        org_ids == user_org_ids(user_orgs)
        found == {o \in org_ids.ids : get_processing_job(db, job_id, o) # NoneRow}
        org_id == CHOOSE o \in found : \A x \in found : o <= x
        job == get_processing_job(db, job_id, org_id)
        hyperbrowser_job_id ==
            DictGet(DictGet(job, "metadata", EmptyDict), "hyperbrowser_job_id", NoBatch)
        status_info == check_and_process_batch_job(db, hyperbrowser_job_id, org_id, hb,
                                                   poll_raises, get_raises)
    IN IF user_orgs = {} THEN [code |-> "400", db |-> db]
       ELSE IF org_ids.raised THEN [code |-> "500", db |-> db]
       ELSE IF found = {} THEN [code |-> "404", db |-> db]
       ELSE IF hyperbrowser_job_id = NoBatch THEN [code |-> "500", db |-> db]
       ELSE IF status_info.result = "error" THEN [code |-> "500", db |-> status_info.db]
       ELSE IF status_info.result = "processing" THEN [code |-> "200", db |-> status_info.db]
       ELSE IF ~get_markdown_content(status_info.db, hyperbrowser_job_id, org_id)
            THEN [code |-> "404", db |-> status_info.db]
       ELSE [code |-> "200", db |-> status_info.db]

\* ----------------------------------------------------------------------
\* app/api/v1/endpoints/extraction.py
\* ----------------------------------------------------------------------

\* The statuses client.extract.get_status and client.extract.get report.
provider_statuses == {"pending", "running", "completed", "failed"}

\* get_extraction_status.  report is the status the provider reports,
\* "raise" when client.extract.get_status raises, "none" when its response
\* has no status.  The result is the HTTP status code, the status in the
\* response, and the database after the request.
get_extraction_status(db, job_id, report) ==
    LET g == get_extraction_job(db, job_id, NoOrg)
        org_id == g.job.org_id
    IN IF g.job = NoneRow THEN [code |-> "404", status |-> NoneStr, db |-> g.db]
       ELSE IF org_id = NoOrg THEN [code |-> "500", status |-> NoneStr, db |-> g.db]
       ELSE IF report = "raise" THEN [code |-> "500", status |-> NoneStr, db |-> g.db]
       ELSE IF report = "none" THEN [code |-> "200", status |-> g.job.status, db |-> g.db]
       ELSE [code |-> "200", status |-> report,
             db |-> update_extraction_job_status(g.db, job_id, report, NoneStr, org_id)]

\* get_extraction_result.  report is what client.extract.get reports,
\* has_data whether a completed result brings data, valid whether
\* WebsiteExtraction(**result.data) validates.  Of a completed result with
\* valid data the rows are stored, and store_extraction_content, called
\* once more, raises into the handler of the validation error.
get_extraction_result(db, job_id, report, has_data, valid) ==
    LET g == get_extraction_job(db, job_id, NoOrg)
        org_id == g.job.org_id
        plain == update_extraction_job_status(g.db, job_id, report, NoneStr, org_id)
        stored == update_extraction_job_status(g.db, job_id, report, "data", org_id)
        again == store_extraction_content(stored, job_id)
        validation_error(d) == update_extraction_job_status(d, job_id, report, NoneStr, org_id)
    IN IF g.job = NoneRow THEN [code |-> "404", status |-> NoneStr, db |-> g.db]
       ELSE IF org_id = NoOrg THEN [code |-> "500", status |-> NoneStr, db |-> g.db]
       ELSE IF report \in {"raise", "none"}
            THEN [code |-> "500", status |-> NoneStr, db |-> g.db]
       ELSE IF report # "completed" THEN [code |-> "200", status |-> report, db |-> plain]
       ELSE IF ~has_data THEN [code |-> "200", status |-> "completed", db |-> plain]
       ELSE IF ~valid
            THEN [code |-> "200", status |-> "completed", db |-> validation_error(g.db)]
       ELSE IF again.raised
            THEN [code |-> "200", status |-> "completed", db |-> validation_error(again.db)]
       ELSE [code |-> "200", status |-> "completed", db |-> again.db]

\* ----------------------------------------------------------------------
\* The markdown extraction core as a state machine
\* ----------------------------------------------------------------------

Init ==
    /\ processing_jobs = <<>>
    /\ markdown_content = <<>>
    /\ extracted_links = <<>>
    /\ markdownextractionjobs = <<>>
    /\ document_content = <<>>
    /\ documentconversionjobs = <<>>
    /\ extraction_content = <<>>
    /\ org_content_sources = <<>>
    /\ org_content_library = <<>>
    /\ documents = <<>>
    /\ file_content_sources = <<>>
    /\ local_job_cache = <<>>
    /\ hyperbrowser = <<>>
    /\ submission = [j \in JobIds |-> [state |-> "none", org_id |-> NoOrg, urls |-> {}]]
    /\ inflight = [p \in Procs |-> [pc |-> "idle"]]
    /\ http = [path |-> "/", auth_header |-> NoneStr, cookie |-> NoneStr,
               response |-> "none"]
    /\ docling = [pc |-> "idle", max_attempts |-> 0, attempt |-> 0, polls |-> 0,
                  failed_seen |-> FALSE]
    /\ last = [op |-> "init", job_id |-> 0, org_id |-> NoOrg, result |-> "None",
               again |-> FALSE]

\* The tables of a database value become the next state.
Store(db) ==
    /\ processing_jobs' = db.processing_jobs
    /\ markdown_content' = db.markdown_content
    /\ extracted_links' = db.extracted_links
    /\ markdownextractionjobs' = db.markdownextractionjobs
    /\ document_content' = db.document_content
    /\ documentconversionjobs' = db.documentconversionjobs
    /\ extraction_content' = db.extraction_content
    /\ org_content_sources' = db.org_content_sources
    /\ org_content_library' = db.org_content_library
    /\ documents' = db.documents
    /\ file_content_sources' = db.file_content_sources
    /\ local_job_cache' = db.local_job_cache

\* Orchestrator.CreateJob: create_markdown_extraction_job under a fresh
\* uuid4 job id, then background_tasks.add_task(start_batch_scrape,
\* job_id, urls, org_id).
CreateJob(job_id, org_id, n) ==
    /\ job_id \notin DOMAIN processing_jobs
    /\ submission[job_id].state = "none"
    /\ Store(create_markdown_extraction_job(DB, job_id, 1 .. n, org_id))
    /\ submission' = [submission EXCEPT ![job_id] =
                         [state |-> "queued", org_id |-> org_id, urls |-> 1 .. n]]
    /\ last' = [op |-> "create_job", job_id |-> job_id, org_id |-> org_id,
                result |-> "pending", again |-> FALSE]
    /\ UNCHANGED <<hyperbrowser, inflight, http, docling>>

\* The detached task start_batch_scrape(job_id, urls, org_id).  The
\* provider accepts the batch (its id is the job's, one batch per job) or
\* rejects it.
StartBatchScrape(job_id, accepted) ==
    /\ submission[job_id].state = "queued"
    /\ LET r == start_batch_scrape(DB, job_id, submission[job_id].org_id, accepted, job_id)
       IN /\ Store(r.db)
          /\ last' = [op |-> "start_batch_scrape", job_id |-> job_id,
                      org_id |-> submission[job_id].org_id, result |-> r.result,
                      again |-> FALSE]
    /\ hyperbrowser' = IF accepted
                       THEN hyperbrowser @@ (job_id :>
                               [status |-> "pending", urls |-> submission[job_id].urls,
                                data |-> <<>>])
                       ELSE hyperbrowser
    /\ submission' = [submission EXCEPT ![job_id].state = "done"]
    /\ UNCHANGED <<inflight, http, docling>>

\* The provider works on a batch: pending, running, then failed, or
\* completed with the outcome of every URL of the batch.
HyperbrowserStep(batch_id, outcome, data) ==
    /\ batch_id \in DOMAIN hyperbrowser
    /\ \/ hyperbrowser[batch_id].status = "pending" /\ outcome = "running"
       \/ hyperbrowser[batch_id].status = "running" /\ outcome \in {"completed", "failed"}
    /\ DOMAIN data = IF outcome = "completed" THEN hyperbrowser[batch_id].urls ELSE {}
    /\ hyperbrowser' = [hyperbrowser EXCEPT ![batch_id].status = outcome, ![batch_id].data = data]
    /\ last' = [op |-> "provider", job_id |-> batch_id, org_id |-> NoOrg,
                result |-> outcome, again |-> FALSE]
    /\ UNCHANGED <<stores, submission, inflight, http, docling>>

\* Reconcile: check_and_process_batch_job(job_id, org_id).
Reconcile(job_id, org_id, poll_raises, get_raises) ==
    /\ LET r == check_and_process_batch_job(DB, job_id, org_id, hyperbrowser,
                                            poll_raises, get_raises)
       IN /\ Store(r.db)
          /\ last' = [op |-> "check_and_process_batch_job", job_id |-> job_id,
                      org_id |-> org_id, result |-> r.result,
                      again |-> /\ last.op = "check_and_process_batch_job"
                                /\ last.job_id = job_id
                                /\ last.org_id = org_id]
    /\ UNCHANGED <<hyperbrowser, submission, inflight, http, docling>>

\* GET /getmd/{job_id}/status by a user of the organization caller.
GetMarkdownStatus(job_id, caller, poll_raises, get_raises) ==
    /\ LET r == get_markdown_status(DB, job_id, caller, hyperbrowser, poll_raises, get_raises)
       IN /\ Store(r.db)
          /\ last' = [op |-> "get_markdown_status", job_id |-> job_id,
                      org_id |-> caller, result |-> r.code, again |-> FALSE]
    /\ UNCHANGED <<hyperbrowser, submission, inflight, http, docling>>

\* GET /getmd/{job_id} by a user of the organization caller.
GetMarkdownResults(job_id, caller, poll_raises, get_raises) ==
    /\ LET r == get_markdown_results(DB, job_id, caller, hyperbrowser, poll_raises, get_raises)
       IN /\ Store(r.db)
          /\ last' = [op |-> "get_markdown_results", job_id |-> job_id,
                      org_id |-> caller, result |-> r.code, again |-> FALSE]
    /\ UNCHANGED <<hyperbrowser, submission, inflight, http, docling>>

\* The number of rows of extracted_links.
RECURSIVE SumOver(_, _)
SumOver(f, ks) ==
    IF ks = {} THEN 0
    ELSE LET k == CHOOSE x \in ks : TRUE IN f[k] + SumOver(f, ks \ {k})

\* WorkItemStore.MarkResult: update_url_markdown_content(job_id, url,
\* markdown_text, status, links=..., org_id=org_id).
MarkResult(job_id, url, status, links, org_id) ==
    /\ links = 0 \/ SumOver(extracted_links, DOMAIN extracted_links) < MaxLinkRows
    /\ Store(update_url_markdown_content(DB, job_id, url,
                 IF status = "completed" THEN "markdown" ELSE "", status, links, org_id))
    /\ last' = [op |-> "update_url_markdown_content", job_id |-> job_id,
                org_id |-> org_id, result |-> status, again |-> FALSE]
    /\ UNCHANGED <<hyperbrowser, submission, inflight, http, docling>>

\* convert_documents, the loop over the uploaded files: one
\* create_document_content_record per file.
RECURSIVE content_records(_, _, _, _)
content_records(db, job_id, files, org_id) ==
    IF files = {} THEN db
    ELSE LET f == CHOOSE x \in files : \A y \in files : x <= y
         IN content_records(create_document_content_record(db, job_id, f, org_id),
                            job_id, files \ {f}, org_id)

\* convert_documents: create_document_conversion_job under a fresh job
\* id, then the content records of the n uploaded files.
CreateDocJob(job_id, org_id, n) ==
    /\ job_id \notin DOMAIN processing_jobs
    /\ submission[job_id].state = "none"
    /\ Store(content_records(create_document_conversion_job(DB, job_id, org_id),
                             job_id, 1 .. n, org_id))
    /\ last' = [op |-> "create_doc_job", job_id |-> job_id, org_id |-> org_id,
                result |-> "pending", again |-> FALSE]
    /\ UNCHANGED <<hyperbrowser, submission, inflight, http, docling>>

\* WorkItemStore.MarkResult of a document: update_document_content(job_id,
\* filename, markdown_text, status, metadata, org_id).
MarkDocResult(job_id, filename, status, org_id) ==
    /\ Store(update_document_content(DB, job_id, filename,
                 IF status = "completed" THEN "markdown" ELSE "", status, org_id))
    /\ last' = [op |-> "update_document_content", job_id |-> job_id,
                org_id |-> org_id, result |-> status, again |-> FALSE]
    /\ UNCHANGED <<hyperbrowser, submission, inflight, http, docling>>

\* The outcomes a completed batch over the URLs urls can report.
BatchData(urls) == [urls -> {"completed", "failed"}]

Next ==
    \/ \E j \in JobIds, o \in Orgs, n \in 1 .. MaxUrls : CreateJob(j, o, n)
    \/ \E j \in JobIds, a \in BOOLEAN : StartBatchScrape(j, a)
    \/ \E b \in JobIds : HyperbrowserStep(b, "running", <<>>)
    \/ \E b \in JobIds : HyperbrowserStep(b, "failed", <<>>)
    \/ \E b \in DOMAIN hyperbrowser : \E d \in BatchData(hyperbrowser[b].urls) :
          HyperbrowserStep(b, "completed", d)
    \/ \E j \in JobIds, o \in Orgs, pr \in BOOLEAN, gr \in BOOLEAN : Reconcile(j, o, pr, gr)
    \/ \E j \in JobIds, c \in Orgs \cup {NoOrg}, pr \in BOOLEAN, gr \in BOOLEAN :
          GetMarkdownStatus(j, c, pr, gr)
    \/ \E j \in JobIds, c \in Orgs \cup {NoOrg}, pr \in BOOLEAN, gr \in BOOLEAN :
          GetMarkdownResults(j, c, pr, gr)

Spec == Init /\ [][Next]_vars

\* The Work Item Store on its own: jobs are created and results recorded.
NextStore ==
    \/ \E j \in JobIds, o \in Orgs, n \in 1 .. MaxUrls : CreateJob(j, o, n)
    \/ \E j \in JobIds, u \in Urls, s \in {"completed", "failed"}, o \in Orgs :
          \E l \in 0 .. result_links(s) : MarkResult(j, u, s, l, o)
    \/ \E j \in JobIds, o \in Orgs, n \in 1 .. MaxFiles : CreateDocJob(j, o, n)
    \/ \E j \in JobIds, f \in Files, s \in {"completed", "failed"}, o \in Orgs :
          MarkDocResult(j, f, s, o)

SpecStore == Init /\ [][NextStore]_vars

\* ----------------------------------------------------------------------
\* The website extraction flow as a state machine
\* ----------------------------------------------------------------------

\* POST /extract: client.extract.start accepts the job and names it
\* job_id, an id it has not given out before, or raises; then
\* create_extraction_job.
StartExtraction(job_id, org_id, accepted, db_ok) ==
    /\ job_id \notin DOMAIN processing_jobs
    /\ job_id \notin DOMAIN local_job_cache
    /\ Store(IF accepted THEN create_extraction_job(DB, job_id, "url", org_id, db_ok) ELSE DB)
    /\ last' = [op |-> "start_extraction", job_id |-> job_id, org_id |-> org_id,
                result |-> IF accepted THEN "202" ELSE "500", again |-> FALSE]
    /\ UNCHANGED <<hyperbrowser, submission, inflight, http, docling>>

\* GET /extract/{job_id}/status by a user of the organization caller.
GetExtractionStatus(job_id, caller, report) ==
    /\ LET r == get_extraction_status(DB, job_id, report)
       IN /\ Store(r.db)
          /\ last' = [op |-> "get_extraction_status", job_id |-> job_id,
                      org_id |-> caller, result |-> r.code, again |-> FALSE]
    /\ UNCHANGED <<hyperbrowser, submission, inflight, http, docling>>

\* GET /extract/{job_id} by a user of the organization caller.
GetExtractionResult(job_id, caller, report, has_data, valid) ==
    /\ DictGet(extraction_content, job_id, 0) < MaxResultRows
    /\ LET r == get_extraction_result(DB, job_id, report, has_data, valid)
       IN /\ Store(r.db)
          /\ last' = [op |-> "get_extraction_result", job_id |-> job_id,
                      org_id |-> caller, result |-> r.code, again |-> FALSE]
    /\ UNCHANGED <<hyperbrowser, submission, inflight, http, docling>>

NextExt ==
    \/ \E j \in JobIds, o \in Orgs, a \in BOOLEAN, ok \in BOOLEAN : StartExtraction(j, o, a, ok)
    \/ \E j \in JobIds, c \in Orgs, r \in provider_statuses \cup {"raise", "none"} :
          GetExtractionStatus(j, c, r)
    \/ \E j \in JobIds, c \in Orgs, r \in provider_statuses \cup {"raise", "none"},
          d \in BOOLEAN, v \in BOOLEAN : GetExtractionResult(j, c, r, d, v)

SpecExt == Init /\ [][NextExt]_vars

\* ----------------------------------------------------------------------
\* Reconciliation next to finished jobs
\* ----------------------------------------------------------------------

\* The markdown flow of Spec without its two GET handlers, next to website
\* extractions that the provider accepts and then reports as finished:
\* these are the rows of processing_jobs that reach a terminal status.
NextFinal ==
    \/ \E j \in JobIds, o \in Orgs, n \in 1 .. MaxUrls : CreateJob(j, o, n)
    \/ \E j \in JobIds, a \in BOOLEAN : StartBatchScrape(j, a)
    \/ \E b \in JobIds : HyperbrowserStep(b, "running", <<>>)
    \/ \E b \in JobIds : HyperbrowserStep(b, "failed", <<>>)
    \/ \E b \in DOMAIN hyperbrowser : \E d \in BatchData(hyperbrowser[b].urls) :
          HyperbrowserStep(b, "completed", d)
    \/ \E j \in JobIds, o \in Orgs, pr \in BOOLEAN, gr \in BOOLEAN : Reconcile(j, o, pr, gr)
    \/ \E j \in JobIds, o \in Orgs : StartExtraction(j, o, TRUE, TRUE)
    \/ \E j \in JobIds, c \in Orgs, r \in {"completed", "failed"} :
          GetExtractionStatus(j, c, r)

SpecFinal == Init /\ [][NextFinal]_vars

\* ----------------------------------------------------------------------
\* The create-job requests
\* ----------------------------------------------------------------------

\* The most URLs a batch may hold.
provider_ceiling == 1000

\* MarkdownExtractionRequest.validate_urls on a list of len_urls URLs.
validate_urls(len_urls) == ~(len_urls = 0) /\ ~(len_urls > provider_ceiling)

\* extract_markdown on a request of len_urls URLs for the organization
\* org_id (NoOrg when the request names none) by a user of the
\* organization caller: the HTTP status code.  Past the two checks of the
\* list, the organization is resolved from get_user_organizations, whose
\* values both branches subscript with ["org_id"].
extract_markdown(len_urls, org_id, caller) ==
    LET user_orgs == get_user_organizations(caller) IN
    IF ~validate_urls(len_urls) THEN "422"
    ELSE IF len_urls = 0 THEN "400"
    ELSE IF len_urls > provider_ceiling THEN "400"
    ELSE IF org_id = NoOrg
         THEN IF user_orgs = {} THEN "400" ELSE "500"
    ELSE IF user_org_ids(user_orgs).raised THEN "500"
    ELSE "403"

\* POST /getmd.
ExtractMarkdown(len_urls, org_id, caller) ==
    /\ last' = [op |-> "extract_markdown", job_id |-> 0, org_id |-> caller,
                result |-> extract_markdown(len_urls, org_id, caller), again |-> FALSE]
    /\ UNCHANGED <<stores, hyperbrowser, submission, inflight, http, docling>>

\* The check a handler without "if not files" would make.
no_check(n) == FALSE

\* convert_documents, "if not files".
no_files(n) == n = 0

\* POST /doc2md with n files: 400 for no files, else the job and its
\* content records.  job_id is a form field of the request: when it names a
\* job that exists, the insert of the job row fails,
\* create_document_conversion_job returns its fallback record and the
\* content records are inserted under the given id.
ConvertDocuments(job_id, org_id, n) ==
    \/ /\ no_files(n)
       /\ last' = [op |-> "convert_documents", job_id |-> job_id, org_id |-> org_id,
                   result |-> "400", again |-> FALSE]
       /\ UNCHANGED <<stores, hyperbrowser, submission, inflight, http, docling>>
    \/ /\ ~no_files(n)
       /\ CreateDocJob(job_id, org_id, n)
    \/ /\ ~no_files(n)
       /\ job_id \in DOMAIN processing_jobs
       /\ Store(content_records(create_document_conversion_job(DB, job_id, org_id),
                                job_id, 1 .. n, org_id))
       /\ last' = [op |-> "convert_documents", job_id |-> job_id, org_id |-> org_id,
                   result |-> "202", again |-> FALSE]
       /\ UNCHANGED <<hyperbrowser, submission, inflight, http, docling>>

\* The lengths of the URL lists of the requests.
RequestLengths == (0 .. MaxUrls) \cup {provider_ceiling, provider_ceiling + 1}

NextCreate ==
    \/ \E n \in RequestLengths, o \in Orgs \cup {NoOrg}, c \in Orgs \cup {NoOrg} :
          ExtractMarkdown(n, o, c)
    \/ \E j \in JobIds, o \in Orgs, n \in 0 .. MaxFiles : ConvertDocuments(j, o, n)
    \/ \E j \in JobIds, f \in Files, s \in {"completed", "failed"}, o \in Orgs :
          MarkDocResult(j, f, s, o)

SpecCreate == Init /\ [][NextCreate]_vars

\* ----------------------------------------------------------------------
\* The content library flow next to the website extraction handlers
\* ----------------------------------------------------------------------

\* POST /process: create_content_library_job under a fresh uuid4 job id,
\* then background_tasks.add_task(process_content_library_job, ...).
CreateContentLibraryJob(job_id, org_id, n) ==
    /\ job_id \notin DOMAIN processing_jobs
    /\ job_id \notin DOMAIN local_job_cache
    /\ submission[job_id].state = "none"
    /\ Store(create_content_library_job(DB, job_id, org_id, 1 .. n))
    /\ submission' = [submission EXCEPT ![job_id] =
                         [state |-> "library_queued", org_id |-> org_id, urls |-> 1 .. n]]
    /\ last' = [op |-> "create_content_library_job", job_id |-> job_id, org_id |-> org_id,
                result |-> "pending", again |-> FALSE]
    /\ UNCHANGED <<hyperbrowser, inflight, http, docling>>

\* process_content_library_job, its first update: status processing.
ContentLibraryStart(job_id) ==
    /\ submission[job_id].state = "library_queued"
    /\ Store(update_content_library_job_status(DB, job_id, [status |-> "processing"],
                                                submission[job_id].org_id))
    /\ submission' = [submission EXCEPT ![job_id].state = "library_running"]
    /\ last' = [op |-> "process_content_library_job", job_id |-> job_id,
                org_id |-> submission[job_id].org_id, result |-> "processing",
                again |-> FALSE]
    /\ UNCHANGED <<hyperbrowser, inflight, http, docling>>

\* process_content_library_job, the rest of the task.
ContentLibraryFinish(job_id, found, usable, extracted, insert_ok) ==
    /\ submission[job_id].state = "library_running"
    /\ usable <= get_content_sources(submission[job_id].urls, found)
    /\ LET db == content_library_outcome(
                     DB, job_id, submission[job_id].org_id, submission[job_id].urls,
                     get_content_sources(submission[job_id].urls, found), usable,
                     extracted, insert_ok)
       IN /\ Store(db)
          /\ last' = [op |-> "process_content_library_job", job_id |-> job_id,
                      org_id |-> submission[job_id].org_id,
                      result |-> db.processing_jobs[job_id].status, again |-> FALSE]
    /\ submission' = [submission EXCEPT ![job_id].state = "done"]
    /\ UNCHANGED <<hyperbrowser, inflight, http, docling>>

NextLibrary ==
    \/ \E j \in JobIds, o \in Orgs, n \in 0 .. MaxSources : CreateContentLibraryJob(j, o, n)
    \/ \E j \in JobIds : ContentLibraryStart(j)
    \/ \E j \in JobIds, f \in 0 .. MaxSources, u \in 0 .. MaxSources,
          e \in BOOLEAN, ok \in BOOLEAN : ContentLibraryFinish(j, f, u, e, ok)
    \/ \E j \in JobIds, o \in Orgs, a \in BOOLEAN, ok \in BOOLEAN : StartExtraction(j, o, a, ok)
    \/ \E j \in JobIds, c \in Orgs, r \in provider_statuses \cup {"raise", "none"} :
          GetExtractionStatus(j, c, r)

SpecLibrary == Init /\ [][NextLibrary]_vars

\* process_single_document_result for one uploaded file: the document
\* record and the content-source record of the file are created, then the
\* conversion result is recorded with update_document_content.
ProcessSingleDocumentResult(job_id, filename, org_id, status) ==
    /\ <<job_id, filename>> \in DOMAIN document_content
    /\ <<job_id, filename>> \notin DOMAIN documents
    /\ Store(update_document_content(
                 create_org_content_source_record(
                     create_document_record(DB, job_id, filename, org_id),
                     job_id, filename, org_id),
                 job_id, filename, IF status = "completed" THEN "markdown" ELSE "",
                 status, org_id))
    /\ last' = [op |-> "process_single_document_result", job_id |-> job_id,
                org_id |-> org_id, result |-> status, again |-> FALSE]
    /\ UNCHANGED <<hyperbrowser, submission, inflight, http, docling>>

\* Document jobs and the results of their files.
NextDocResult ==
    \/ \E j \in JobIds, o \in Orgs, n \in 1 .. MaxFiles : CreateDocJob(j, o, n)
    \/ \E j \in JobIds, f \in Files, o \in Orgs, s \in {"completed", "failed"} :
          ProcessSingleDocumentResult(j, f, o, s)

SpecDocResult == Init /\ [][NextDocResult]_vars

\* The owner of a job polls its status: GET /getmd/{job_id}/status by a
\* user of the organization of the job, the provider answering.
OwnerPoll(j) ==
    \E c \in Orgs :
        /\ j \in DOMAIN processing_jobs
        /\ processing_jobs[j].org_id = c
        /\ GetMarkdownStatus(j, c, FALSE, FALSE)

\* The reconcile the status request is written to run, for the owner.
OwnerReconcile(j) ==
    \E o \in Orgs :
        /\ j \in DOMAIN processing_jobs
        /\ processing_jobs[j].org_id = o
        /\ Reconcile(j, o, FALSE, FALSE)

\* The markdown flow under continued polling: the owner of every job keeps
\* asking for its status, and the detached submissions run.
NextLive ==
    \/ \E j \in JobIds, o \in Orgs, n \in 1 .. MaxUrls : CreateJob(j, o, n)
    \/ \E j \in JobIds, a \in BOOLEAN : StartBatchScrape(j, a)
    \/ \E b \in JobIds : HyperbrowserStep(b, "running", <<>>)
    \/ \E b \in JobIds : HyperbrowserStep(b, "failed", <<>>)
    \/ \E b \in DOMAIN hyperbrowser : \E d \in BatchData(hyperbrowser[b].urls) :
          HyperbrowserStep(b, "completed", d)
    \/ \E j \in JobIds : OwnerPoll(j)
    \/ \E j \in JobIds : OwnerReconcile(j)

SpecLive ==
    /\ Init /\ [][NextLive]_vars
    /\ \A j \in JobIds : WF_vars(OwnerPoll(j))
    /\ \A j \in JobIds : WF_vars(OwnerReconcile(j))
    /\ \A j \in JobIds : WF_vars(\E a \in BOOLEAN : StartBatchScrape(j, a))

\* ----------------------------------------------------------------------
\* app/utils/jwt_handler.py
\* ----------------------------------------------------------------------

\* str.startswith, str.endswith and the operator in on strings.
startswith(s, prefix) ==
    Len(s) >= Len(prefix) /\ SubSeq(s, 1, Len(prefix)) = prefix

endswith(s, suffix) ==
    Len(s) >= Len(suffix) /\ SubSeq(s, Len(s) - Len(suffix) + 1, Len(s)) = suffix

contains(s, part) ==
    \E i \in 1 .. (Len(s) - Len(part) + 1) : SubSeq(s, i, i + Len(part) - 1) = part

public_endpoints ==
    {"/api/v1/usr/users", "/api/v1/usr/login", "/api/v1/usr/register",
     "/docs", "/redoc", "/openapi.json", "/api/v1/openapi.json", "/"}

\* jwt.decode(token, JWT_SECRET_KEY, algorithms=[JWT_ALGORITHM]): the
\* payload of a token that is signed and not expired, else the exception.
jwt_decode(token) ==
    IF token = "valid" THEN "payload"
    ELSE IF token = "expired" THEN "ExpiredSignatureError"
    ELSE "PyJWTError"

\* str.replace(old, ""): s without any occurrence of old, left to right.
RECURSIVE remove_all(_, _)
remove_all(s, old) ==
    IF Len(s) = 0 THEN s
    ELSE IF startswith(s, old) THEN remove_all(SubSeq(s, Len(old) + 1, Len(s)), old)
    ELSE SubSeq(s, 1, 1) \o remove_all(SubSeq(s, 2, Len(s)), old)

\* The token the middleware looks at: the Authorization header without
\* "Bearer " when the header starts with it, else the cookie.
request_token(auth_header, cookie) ==
    IF auth_header # NoneStr /\ startswith(auth_header, "Bearer ")
    THEN remove_all(auth_header, "Bearer ")
    ELSE cookie

verify_jwt_cookie_middleware(path, auth_header, cookie) ==
    IF \E endpoint \in public_endpoints : startswith(path, endpoint)
    THEN "call_next"
    ELSE IF contains(path, "/api/v1/extraction/extract/") /\ endswith(path, "/status")
    THEN "call_next"
    ELSE IF request_token(auth_header, cookie) \in {NoneStr, ""} THEN "401"
    ELSE IF jwt_decode(request_token(auth_header, cookie)) = "payload" THEN "call_next"
    ELSE "401"

\* The requests the middleware is given.
Paths ==
    {"/", "/docs", "/api/v1/usr/login", "/api/v1/markdown/getmd", "/api/v1/doc2md",
     "/api/v1/extraction/extract/1", "/api/v1/extraction/extract/1/status"}

AuthHeaders ==
    {NoneStr, "Bearer valid", "Bearer expired", "Bearer garbage", "Bearer ",
     "Bearer Bearer valid", "Basic valid"}

Cookies == {NoneStr, "valid", "expired", "garbage"}

VerifyJwtCookieMiddleware(path, auth_header, cookie) ==
    /\ http' = [path |-> path, auth_header |-> auth_header, cookie |-> cookie,
                response |-> verify_jwt_cookie_middleware(path, auth_header, cookie)]
    /\ last' = [op |-> "verify_jwt_cookie_middleware", job_id |-> 0, org_id |-> NoOrg,
                result |-> verify_jwt_cookie_middleware(path, auth_header, cookie),
                again |-> FALSE]
    /\ UNCHANGED <<stores, hyperbrowser, submission, inflight, docling>>

NextJwt ==
    \E path \in Paths, auth_header \in AuthHeaders, cookie \in Cookies :
        VerifyJwtCookieMiddleware(path, auth_header, cookie)

SpecJwt == Init /\ [][NextJwt]_vars

\* ----------------------------------------------------------------------
\* app/utils/docling_client.py
\* ----------------------------------------------------------------------

\* wait_for_completion(task_id, max_attempts) is called.
WaitForCompletion(max_attempts) ==
    /\ docling.pc \in {"idle", "returned", "raised", "timeout"}
    /\ docling' = [pc |-> IF max_attempts > 0 THEN "loop" ELSE "timeout",
                   max_attempts |-> max_attempts, attempt |-> 0, polls |-> 0,
                   failed_seen |-> FALSE]
    /\ last' = [op |-> "wait_for_completion", job_id |-> 0, org_id |-> NoOrg,
                result |-> "called", again |-> FALSE]
    /\ UNCHANGED <<stores, hyperbrowser, submission, inflight, http>>

\* The except branch of the loop: raise on the last attempt, else sleep
\* and go on with the next attempt.
poll_except(d) ==
    IF d.attempt >= d.max_attempts - 1 THEN [d EXCEPT !.pc = "raised"]
    ELSE [d EXCEPT !.attempt = @ + 1]

\* One pass of the while loop: check_status answers task_status (or
\* raises).  completed returns; failed raises inside the try, so that the
\* loop's own except catches it; any other status sleeps and counts the
\* attempt; the loop ends with TimeoutError when the attempts are used up.
poll_once(d, task_status) ==
    IF task_status = "completed" THEN [d EXCEPT !.pc = "returned", !.polls = @ + 1]
    ELSE IF task_status = "failed"
    THEN poll_except([d EXCEPT !.polls = @ + 1, !.failed_seen = TRUE])
    ELSE IF task_status = "raise" THEN poll_except([d EXCEPT !.polls = @ + 1])
    ELSE [d EXCEPT !.polls = @ + 1, !.attempt = @ + 1,
                   !.pc = IF d.attempt + 1 < d.max_attempts THEN "loop" ELSE "timeout"]

WaitPoll(task_status) ==
    /\ docling.pc = "loop"
    /\ docling.attempt < docling.max_attempts
    /\ docling' = poll_once(docling, task_status)
    /\ last' = [op |-> "check_status", job_id |-> 0, org_id |-> NoOrg,
                result |-> task_status, again |-> FALSE]
    /\ UNCHANGED <<stores, hyperbrowser, submission, inflight, http>>

TaskStatuses == {"pending", "started", "completed", "failed", "raise"}

NextDocling ==
    \/ \E m \in 1 .. MaxAttempts : WaitForCompletion(m)
    \/ \E t \in TaskStatuses : WaitPoll(t)

SpecDocling == Init /\ [][NextDocling]_vars

\* Concurrent callers.  Every execute() of the database client is one
\* atomic operation of the database; a caller that has read a job row acts
\* on the row as it read it, whatever the other callers wrote since.

\* What a caller that began a call remembers: the arguments, the job row it
\* read, where the other callers were and, for the caller that began
\* first, the database when it began.
began(p, op, job_id, org_id, args, job) ==
    [pc |-> "read", op |-> op, job_id |-> job_id, org_id |-> org_id,
     args |-> args, job |-> job,
     start |-> IF \A q \in Procs \ {p} : inflight[q].pc = "idle" THEN DB ELSE NoneRow,
     first |-> \A q \in Procs \ {p} : inflight[q].pc = "idle",
     overlap |-> \E q \in Procs \ {p} :
                    /\ inflight[q].pc = "read"
                    /\ inflight[q].op = op
                    /\ inflight[q].job_id = job_id]

\* check_and_process_batch_job up to the return of
\* get_markdown_extraction_job.
ReconcileBegin(p, job_id, org_id) ==
    /\ inflight[p].pc = "idle"
    /\ inflight' = [inflight EXCEPT ![p] =
           began(p, "check_and_process_batch_job", job_id, org_id, <<>>,
                 get_markdown_extraction_job(DB, job_id, org_id))]
    /\ last' = [op |-> "check_and_process_batch_job", job_id |-> job_id,
                org_id |-> org_id, result |-> "read", again |-> FALSE]
    /\ UNCHANGED <<stores, hyperbrowser, submission, http, docling>>

\* The rest of check_and_process_batch_job, on the job row read before.
ReconcileEnd(p, poll_raises, get_raises) ==
    /\ inflight[p].pc = "read"
    /\ inflight[p].op = "check_and_process_batch_job"
    /\ LET r == checked(DB, inflight[p].job, inflight[p].job_id, inflight[p].org_id,
                        hyperbrowser, poll_raises, get_raises)
       IN /\ Store(r.db)
          /\ last' = [op |-> "check_and_process_batch_job",
                      job_id |-> inflight[p].job_id, org_id |-> inflight[p].org_id,
                      result |-> r.result, again |-> FALSE]
    /\ inflight' = [inflight EXCEPT ![p].pc = "done"]
    /\ UNCHANGED <<hyperbrowser, submission, http, docling>>

\* update_url_markdown_content up to the return of
\* get_markdown_extraction_job: the row and the links are written, the job
\* is read.
MarkBegin(p, job_id, url, status, links, org_id) ==
    /\ inflight[p].pc = "idle"
    /\ links = 0 \/ SumOver(extracted_links, DOMAIN extracted_links) < MaxLinkRows
    /\ Store(url_rows_written(DB, job_id, url,
                 IF status = "completed" THEN "markdown" ELSE "", status, links, org_id))
    /\ inflight' = [inflight EXCEPT ![p] =
           began(p, "update_url_markdown_content", job_id, org_id,
                 <<url, status, links>>,
                 get_markdown_extraction_job(
                     url_rows_written(DB, job_id, url,
                         IF status = "completed" THEN "markdown" ELSE "",
                         status, links, org_id),
                     job_id, org_id))]
    /\ last' = [op |-> "update_url_markdown_content", job_id |-> job_id,
                org_id |-> org_id, result |-> "read", again |-> FALSE]
    /\ UNCHANGED <<hyperbrowser, submission, http, docling>>

\* The last statement of update_url_markdown_content, on the job row read
\* before.
MarkEnd(p) ==
    /\ inflight[p].pc = "read"
    /\ inflight[p].op = "update_url_markdown_content"
    /\ Store(url_count_written(DB, inflight[p].job, inflight[p].job_id,
                               inflight[p].org_id))
    /\ inflight' = [inflight EXCEPT ![p].pc = "done"]
    /\ last' = [op |-> "update_url_markdown_content", job_id |-> inflight[p].job_id,
                org_id |-> inflight[p].org_id, result |-> inflight[p].args[2],
                again |-> FALSE]
    /\ UNCHANGED <<hyperbrowser, submission, http, docling>>

\* The provider has reported completed for the batch of job j.
ProviderCompleted(j) ==
    j \in DOMAIN hyperbrowser /\ hyperbrowser[j].status = "completed"

\* Callers reconciling concurrently the jobs whose batch the provider has
\* completed.
NextReconcileRace ==
    \/ \E j \in JobIds, o \in Orgs, n \in 1 .. MaxUrls : CreateJob(j, o, n)
    \/ \E j \in JobIds, a \in BOOLEAN : StartBatchScrape(j, a)
    \/ \E b \in JobIds : HyperbrowserStep(b, "running", <<>>)
    \/ \E b \in JobIds : HyperbrowserStep(b, "failed", <<>>)
    \/ \E b \in DOMAIN hyperbrowser : \E d \in BatchData(hyperbrowser[b].urls) :
          HyperbrowserStep(b, "completed", d)
    \/ \E p \in Procs, j \in {b \in JobIds : ProviderCompleted(b)}, o \in Orgs :
          ReconcileBegin(p, j, o)
    \/ \E p \in Procs, pr \in BOOLEAN, gr \in BOOLEAN : ReconcileEnd(p, pr, gr)

SpecReconcileRace == Init /\ [][NextReconcileRace]_vars

\* Callers recording the results of items concurrently.
NextMarkRace ==
    \/ \E j \in JobIds, o \in Orgs, n \in 1 .. MaxUrls : CreateJob(j, o, n)
    \/ \E p \in Procs, j \in JobIds, u \in Urls, s \in {"completed", "failed"},
          l \in 0 .. 1, o \in Orgs : MarkBegin(p, j, u, s, l, o)
    \/ \E p \in Procs : MarkEnd(p)

SpecMarkRace == Init /\ [][NextMarkRace]_vars

\* ----------------------------------------------------------------------
\* Properties
\* ----------------------------------------------------------------------

\* The terminal statuses of a job.
Final == {"completed", "completed_with_errors", "failed"}

\* The work items of job j that are no longer pending.
DoneItems(j) ==
    {k \in DOMAIN markdown_content : k[1] = j /\ markdown_content[k].status # "pending"}

\* A step of check_and_process_batch_job.
ReconcileStep ==
    \E j \in JobIds, o \in Orgs, pr \in BOOLEAN, gr \in BOOLEAN : Reconcile(j, o, pr, gr)

C2_CountInvariant ==
    \A j \in DOMAIN processing_jobs :
        processing_jobs[j].completed_items = Cardinality(DoneItems(j))

\* C3: a reconcile in which the provider poll or the result fetch raises
\* leaves the job row unchanged, and a reconcile in which neither raises
\* and the provider reports completed moves the job to a final status.
C3_TransientNotPersisted ==
    [][\A j \in JobIds, o \in Orgs, pr \in BOOLEAN, gr \in BOOLEAN :
          (/\ Reconcile(j, o, pr, gr)
           /\ j \in DOMAIN hyperbrowser
           /\ get_markdown_extraction_job(DB, j, o) # NoneRow)
          => /\ (pr \/ gr) => processing_jobs'[j] = processing_jobs[j]
             /\ (~pr /\ ~gr /\ hyperbrowser[j].status = "completed")
                   => processing_jobs'[j].status \in Final]_vars

\* The status section 4.5 of the specification gives a job all of whose
\* items have the outcomes data.
Aggregate(data) ==
    IF \A u \in DOMAIN data : data[u] = "completed" THEN "completed"
    ELSE IF \E u \in DOMAIN data : data[u] = "completed" THEN "completed_with_errors"
    ELSE "failed"

\* C4: after a reconcile of a job whose provider batch is completed and
\* covers all total_items items, the job status is completed when no item
\* failed, completed_with_errors when some succeeded and some failed, and
\* failed when none succeeded.
C4_StatusAggregation ==
    [][\A j \in JobIds, o \in Orgs :
          (/\ Reconcile(j, o, FALSE, FALSE)
           /\ j \in DOMAIN hyperbrowser
           /\ hyperbrowser[j].status = "completed"
           /\ get_markdown_extraction_job(DB, j, o) # NoneRow
           /\ processing_jobs[j].status \notin Final
           /\ Cardinality(DOMAIN hyperbrowser[j].data) = processing_jobs[j].total_items)
          => processing_jobs'[j].status = Aggregate(hyperbrowser[j].data)]_vars

\* C5: a call of check_and_process_batch_job leaves every job row and
\* every work-item row as it found them, so N calls leave the state one
\* call leaves.
C5_IdempotentReconcile ==
    [][ReconcileStep =>
          /\ processing_jobs' = processing_jobs
          /\ markdown_content' = markdown_content
          /\ extracted_links' = extracted_links
          /\ markdownextractionjobs' = markdownextractionjobs]_vars

\* check_and_process_batch_job has just run a second time in a row, with
\* the owner's org_id, on a job whose provider batch is completed.
C5_Witness ==
    /\ last.op = "check_and_process_batch_job"
    /\ last.again
    /\ last.job_id \in DOMAIN processing_jobs
    /\ processing_jobs[last.job_id].org_id = last.org_id
    /\ last.job_id \in DOMAIN hyperbrowser
    /\ hyperbrowser[last.job_id].status = "completed"

\* C6: get-status and get-results of a markdown job that does not exist,
\* or by a caller outside the job's organization, answer 404 and change
\* no stored state.
C6_OwnerIsolation ==
    [][\A j \in JobIds, c \in Orgs \cup {NoOrg}, pr \in BOOLEAN, gr \in BOOLEAN :
          (/\ GetMarkdownStatus(j, c, pr, gr) \/ GetMarkdownResults(j, c, pr, gr)
           /\ j \in DOMAIN processing_jobs => processing_jobs[j].org_id # c)
          => last'.result = "404" /\ stores' = stores]_vars

\* The organization an extraction job was started for, in the job table
\* or, when its insert failed, in the local cache; NoOrg when the job does
\* not exist.
ExtractionJobOrg(j) ==
    IF j \in DOMAIN processing_jobs THEN processing_jobs[j].org_id
    ELSE IF j \in DOMAIN local_job_cache THEN local_job_cache[j].org_id
    ELSE NoOrg

\* C7: the extraction status and result of a job that does not exist, or
\* asked for by a caller outside the job's organization, answer 404.
C7_ExtractionOwnerIsolation ==
    [][\A j \in JobIds, c \in Orgs, r \in provider_statuses \cup {"raise", "none"},
          d \in BOOLEAN, v \in BOOLEAN :
          (/\ GetExtractionStatus(j, c, r) \/ GetExtractionResult(j, c, r, d, v)
           /\ ExtractionJobOrg(j) # c)
          => last'.result = "404"]_vars

\* C8: the stored status of a website extraction job that is completed or
\* failed never changes again, whatever the provider reports.
C8_ExtractionNoRegress ==
    [][\A j \in DOMAIN processing_jobs :
          (/\ processing_jobs[j].job_type = "website_extraction"
           /\ processing_jobs[j].status \in {"completed", "failed"})
          => processing_jobs'[j].status = processing_jobs[j].status]_vars

\* C9: in every reachable state and for every job, completed_items is at
\* most total_items, also after results were recorded repeatedly.
C9_CompletedAtMostTotal ==
    \A j \in DOMAIN processing_jobs :
        processing_jobs[j].completed_items <= processing_jobs[j].total_items

\* A result was recorded for an item that already had one: the item is
\* failed and has links, which only a completed result brings.
C9_Witness ==
    /\ last.op = "update_url_markdown_content"
    /\ \E k \in DOMAIN markdown_content :
          /\ k[1] = last.job_id
          /\ markdown_content[k].status = "failed"
          /\ k \in DOMAIN extracted_links
          /\ processing_jobs[k[1]].org_id = last.org_id

\* C10: after the detached submission task, the job is failed with an
\* error when the provider rejected the batch, and is processing with the
\* provider handle stored when the provider accepted it.
C10_SubmissionOutcome ==
    last.op = "start_batch_scrape" =>
        LET job == processing_jobs[last.job_id] IN
        IF last.result = "None"
        THEN job.status = "failed" /\ job.error_message # NoneStr
        ELSE /\ job.status = "processing"
             /\ DictGet(job.metadata, "hyperbrowser_batch_id", NoBatch) # NoBatch

\* C11: get-status and get-results of a markdown job, asked by its owner
\* while the provider batch is pending or running and nothing raises,
\* answer 200.
C11_PollingNeverFails ==
    [][\A j \in JobIds, c \in Orgs :
          (/\ GetMarkdownStatus(j, c, FALSE, FALSE) \/ GetMarkdownResults(j, c, FALSE, FALSE)
           /\ j \in DOMAIN processing_jobs
           /\ processing_jobs[j].org_id = c
           /\ j \in DOMAIN hyperbrowser
           /\ hyperbrowser[j].status \in {"pending", "running"})
          => last'.result = "200"]_vars

\* The work items of job j, of either kind.
ItemsOf(j, content) == {k \in DOMAIN content : k[1] = j}

\* C12: right after a job is created with n item keys it is pending or
\* processing, total_items is n, completed_items is 0, and it has exactly
\* n work items, all pending.
C12_FreshJob ==
    [][\A j \in JobIds, o \in Orgs, n \in 1 .. MaxUrls :
          (CreateJob(j, o, n) \/ CreateDocJob(j, o, n))
          => /\ j \in DOMAIN processing_jobs'
             /\ processing_jobs'[j].status \in {"pending", "processing"}
             /\ processing_jobs'[j].total_items = n
             /\ processing_jobs'[j].completed_items = 0
             /\ Cardinality(ItemsOf(j, markdown_content')) +
                   Cardinality(ItemsOf(j, document_content')) = n
             /\ \A k \in ItemsOf(j, markdown_content') : markdown_content'[k].status = "pending"
             /\ \A k \in ItemsOf(j, document_content') : document_content'[k].status = "pending"]_vars

\* C13: in every reachable state, a job with an error description stored
\* has status failed.
C13_ErrorOnlyWhenFailed ==
    \A j \in DOMAIN processing_jobs :
        processing_jobs[j].error_message # NoneStr => processing_jobs[j].status = "failed"

\* A job has an error description stored, and a status request has run on
\* that job after it was stored.
C13_Witness ==
    /\ last.op = "get_extraction_status"
    /\ last.job_id \in DOMAIN processing_jobs
    /\ processing_jobs[last.job_id].error_message # NoneStr

C14_WitnessCeiling ==
    /\ last.op = "extract_markdown"
    /\ last.result \in {"400", "422"}

\* The rows of one job: its job row, its item rows and its link rows.
JobRows(db, j) ==
    [job   |-> DictGet(db.processing_jobs, j, NoneRow),
     items |-> [k \in ItemsOf(j, db.markdown_content) |-> db.markdown_content[k]],
     links |-> [k \in ItemsOf(j, db.extracted_links) |-> db.extracted_links[k]]]

\* Two callers have finished the same call on the same job, p having begun
\* first.
BothDone(p, q, op) ==
    /\ p # q
    /\ inflight[p].pc = "done" /\ inflight[q].pc = "done"
    /\ inflight[p].op = op /\ inflight[q].op = op
    /\ inflight[p].job_id = inflight[q].job_id
    /\ inflight[p].first
    /\ inflight[p].job_id \in DOMAIN inflight[p].start.processing_jobs

\* C15: when the provider has reported completed, a step of a reconcile
\* that runs while another caller reconciles the same job (or after it did)
\* leaves the rows of the job as they were, and once two such reconciles
\* have both ended the rows of the job are those a single reconcile leaves.
C15_ConcurrentReconcile ==
    /\ [][\A p \in Procs, pr \in BOOLEAN, gr \in BOOLEAN :
            (/\ ReconcileEnd(p, pr, gr)
             /\ ProviderCompleted(inflight[p].job_id)
             /\ \E q \in Procs \ {p} :
                    /\ inflight[q].pc # "idle"
                    /\ inflight[q].op = "check_and_process_batch_job"
                    /\ inflight[q].job_id = inflight[p].job_id)
            => JobRows(DB, inflight[p].job_id)' = JobRows(DB, inflight[p].job_id)]_vars
    /\ [](\A p \in Procs, q \in Procs, pr \in BOOLEAN, gr \in BOOLEAN :
            (/\ BothDone(p, q, "check_and_process_batch_job")
             /\ inflight[p].org_id = inflight[q].org_id
             /\ ProviderCompleted(inflight[p].job_id))
            => JobRows(DB, inflight[p].job_id)
               = JobRows(check_and_process_batch_job(inflight[p].start, inflight[p].job_id,
                             inflight[p].org_id, hyperbrowser, pr, gr).db,
                         inflight[p].job_id))

\* Two reconciles of the same job by its owner, both begun before either
\* ended and both ended, the provider having reported completed.
C15_Witness ==
    \E p \in Procs, q \in Procs :
        /\ BothDone(p, q, "check_and_process_batch_job")
        /\ inflight[q].overlap
        /\ ProviderCompleted(inflight[p].job_id)
        /\ inflight[p].job # NoneRow /\ inflight[q].job # NoneRow
        /\ last.op = "check_and_process_batch_job" /\ last.result # "read"

\* C16: a reconcile of a job that is neither completed nor failed and whose
\* row carries no provider handle returns the status the job has and
\* writes nothing.
C16_NoHandleNoWrite ==
    [][\A j \in JobIds, o \in Orgs, pr \in BOOLEAN, gr \in BOOLEAN :
          (/\ Reconcile(j, o, pr, gr)
           /\ get_markdown_extraction_job(DB, j, o) # NoneRow
           /\ get_markdown_extraction_job(DB, j, o).status \notin {"completed", "failed"}
           /\ batch_id_of(get_markdown_extraction_job(DB, j, o)) = NoBatch)
          => /\ last'.result = processing_jobs[j].status
             /\ UNCHANGED stores]_vars

\* C17: an item row of either flow that is completed or failed is left as
\* it is by every step: recording a result for it again changes nothing.
C17_ItemWrittenOnce ==
    [][/\ \A k \in DOMAIN markdown_content :
             markdown_content[k].status \in {"completed", "failed"}
             => markdown_content'[k] = markdown_content[k]
       /\ \A k \in DOMAIN document_content :
             document_content[k].status \in {"completed", "failed"}
             => document_content'[k] = document_content[k]]_vars

\* update_url_markdown_content with the arguments caller p passed.
Recorded(db, p) ==
    update_url_markdown_content(db, inflight[p].job_id, inflight[p].args[1],
        IF inflight[p].args[2] = "completed" THEN "markdown" ELSE "",
        inflight[p].args[2], inflight[p].args[3], inflight[p].org_id)

\* C18: when two callers have recorded results of items of one job, their
\* database operations interleaved in any way, the item rows, the link
\* rows, the completed count and the status of the job are those that
\* recording the first result and then the second leaves.
C18_ConcurrentRecording ==
    \A p \in Procs, q \in Procs :
        BothDone(p, q, "update_url_markdown_content")
        => JobRows(DB, inflight[p].job_id)
           = JobRows(Recorded(Recorded(inflight[p].start, p), q), inflight[p].job_id)

\* Two callers of the organization of a job recorded the results of two
\* items of the job, the second having begun before the first ended.
C18_Witness ==
    \E p \in Procs, q \in Procs :
        /\ BothDone(p, q, "update_url_markdown_content")
        /\ inflight[q].overlap
        /\ inflight[p].job # NoneRow /\ inflight[q].job # NoneRow
        /\ inflight[p].args[1] # inflight[q].args[1]
        /\ <<inflight[p].job_id, inflight[p].args[1]>> \in DOMAIN markdown_content
        /\ <<inflight[q].job_id, inflight[q].args[1]>> \in DOMAIN markdown_content

\* C19: when a reconcile of a job whose batch the provider has completed
\* left items of the job pending, the next reconcile of the job by the same
\* organization leaves none of them pending.
C19_UnmarkedItemsRetried ==
    [][\A j \in JobIds, o \in Orgs :
          (/\ Reconcile(j, o, FALSE, FALSE)
           /\ last.op = "check_and_process_batch_job"
           /\ last.job_id = j /\ last.org_id = o
           /\ ProviderCompleted(j)
           /\ j \in DOMAIN processing_jobs /\ processing_jobs[j].org_id = o)
          => \A k \in ItemsOf(j, markdown_content') :
                markdown_content'[k].status # "pending"]_vars

\* C20: a get-result request for a website-extraction job that is
\* completed and whose result is stored adds no result row and no
\* content-source row.
C20_GetResultIdempotent ==
    [][\A j \in JobIds, c \in Orgs, has_data \in BOOLEAN, valid \in BOOLEAN :
          (/\ GetExtractionResult(j, c, "completed", has_data, valid)
           /\ j \in DOMAIN processing_jobs
           /\ processing_jobs[j].status = "completed"
           /\ DictGet(extraction_content, j, 0) > 0)
          => /\ extraction_content' = extraction_content
             /\ org_content_sources' = org_content_sources]_vars

\* C21: a create-job request leaves every job that exists as it is: its
\* job row is unchanged and it has the same item rows as before.
C21_CreateLeavesExistingJobs ==
    [][\A j \in JobIds, o \in Orgs, n \in 1 .. MaxFiles :
          ConvertDocuments(j, o, n)
          => \A e \in DOMAIN processing_jobs :
                /\ processing_jobs'[e] = processing_jobs[e]
                /\ ItemsOf(e, document_content') = ItemsOf(e, document_content)
                /\ \A k \in ItemsOf(e, document_content) :
                      document_content'[k] = document_content[k]]_vars

\* C22: a step that invokes the provider submission of a job (the detached
\* start_batch_scrape, or the client.extract.start call of start_extraction)
\* finds the job row persisted, and is a detached task that was queued by a
\* creation request that has returned.
C22_PersistBeforeSubmit ==
    [][\A j \in JobIds :
          (\/ \E a \in BOOLEAN : StartBatchScrape(j, a)
           \/ \E o \in Orgs, a \in BOOLEAN, d \in BOOLEAN : StartExtraction(j, o, a, d))
          => /\ j \in DOMAIN processing_jobs
             /\ submission[j].state = "queued"]_vars

\* C23: a reconcile by the owner of a job that is neither completed nor
\* failed, the provider poll reporting failed, leaves the job failed with
\* an error stored and returns failed.
C23_ProviderFailureStored ==
    [][\A j \in JobIds, o \in Orgs, gr \in BOOLEAN :
          (/\ Reconcile(j, o, FALSE, gr)
           /\ j \in DOMAIN processing_jobs
           /\ processing_jobs[j].org_id = o
           /\ processing_jobs[j].status \notin {"completed", "failed"}
           /\ j \in DOMAIN hyperbrowser
           /\ hyperbrowser[j].status = "failed")
          => /\ processing_jobs'[j].status = "failed"
             /\ processing_jobs'[j].error_message # NoneStr
             /\ last'.result = "failed"]_vars

\* C24: a reconcile by the owner of a job that is neither completed nor
\* failed, the provider poll reporting pending or running, returns
\* processing and leaves every table as it was.
C24_NonTerminalPollNoWrite ==
    [][\A j \in JobIds, o \in Orgs, gr \in BOOLEAN :
          (/\ Reconcile(j, o, FALSE, gr)
           /\ j \in DOMAIN processing_jobs
           /\ processing_jobs[j].org_id = o
           /\ processing_jobs[j].status \notin {"completed", "failed"}
           /\ j \in DOMAIN hyperbrowser
           /\ hyperbrowser[j].status \in {"pending", "running"})
          => /\ last'.result = "processing"
             /\ UNCHANGED stores]_vars

\* C25: every stored job whose status is completed has as many completed
\* items as it has items.
C25_CompletedMeansAllItems ==
    \A j \in DOMAIN processing_jobs :
        processing_jobs[j].status = "completed"
        => processing_jobs[j].completed_items = processing_jobs[j].total_items

\* C26: recording the result of one file of a document job leaves the
\* content row, the document and the content-source record of every other
\* file as they were.
C26_OtherFilesUnchanged ==
    [][\A j \in JobIds, f \in Files, o \in Orgs, s \in {"completed", "failed"} :
          ProcessSingleDocumentResult(j, f, o, s)
          => /\ \A k \in DOMAIN document_content \ {<<j, f>>} :
                   document_content'[k] = document_content[k]
             /\ \A k \in DOMAIN documents \ {<<j, f>>} :
                   documents'[k] = documents[k]
             /\ \A k \in DOMAIN file_content_sources \ {<<j, f>>} :
                   file_content_sources'[k] = file_content_sources[k]]_vars

\* C27: once the provider accepted the batch of a job and reports it
\* completed or failed, the job eventually has the status completed or
\* failed, the owner polling its status again and again.
C27_EventuallyTerminal ==
    \A j \in JobIds :
        (j \in DOMAIN hyperbrowser /\ hyperbrowser[j].status \in {"completed", "failed"})
        ~> (j \in DOMAIN processing_jobs
            /\ processing_jobs[j].status \in {"completed", "failed"})

\* C28: every job that get_extraction_job returns has a row in the
\* persistent job table; in particular every job of the in-memory cache
\* has one.
C28_CacheNeverOnlyCopy ==
    \A j \in JobIds :
        get_extraction_job(DB, j, NoOrg).job # NoneRow => j \in DOMAIN processing_jobs

\* C29: a request that the middleware passes on, and whose path is none of
\* the documented public endpoints (the user, documentation and root
\* paths, and the extraction status path), carries a token that is valid
\* and not expired in the Authorization header or in the cookie.
C29_ProtectedNeedsToken ==
    (/\ http.response = "call_next"
     /\ http.path # "/"
     /\ ~ \E endpoint \in public_endpoints \ {"/"} : startswith(http.path, endpoint)
     /\ ~ (contains(http.path, "/api/v1/extraction/extract/")
           /\ endswith(http.path, "/status")))
    => jwt_decode(request_token(http.auth_header, http.cookie)) = "payload"

\* C30: once a status poll of wait_for_completion has reported the task
\* failed, no further status poll is issued.
C30_FailedStopsPolling ==
    [][\A t \in TaskStatuses : WaitPoll(t) => ~ docling.failed_seen]_vars

====
